---- MODULE Spec2Model ----
(***************************************************************************)
(* A model of the fractale workflow orchestration core:                    *)
(*   - the plan compiler            (fractale/core/plan/plan.py),          *)
(*   - the workflow state machine   (fractale/engines/native/             *)
(*                                   state_machine.py),                    *)
(*   - the native Manager loop      (fractale/engines/native/manager.py),  *)
(*   - the ManagerAgent loop and its failure recovery                      *)
(*                                  (fractale/agent/manager/agent.py),     *)
(*   - the context reset            (fractale/agent/base.py).              *)
(*                                                                         *)
(* Python values are modelled as strings; None is the string NoneVal.     *)
(* A dict is a function whose DOMAIN is the set of keys present.           *)
(* Python list indices i (0-based) appear here as i + 1.                   *)
(***************************************************************************)
EXTENDS Integers, Sequences, FiniteSets, TLC

VARIABLES
    \* the plan (fractale/core/plan/plan.py)
    raw0,                \* the plan document's step list as the caller gave it
    raw,                 \* Plan.raw_data["steps"]: the same list object, mutated in place
    planStatus,          \* "new" | "invalid" (ValueError) | "crashed" (KeyError) | "compiled" | "recompiled"
    states,              \* Plan.states: the compiled graph, name -> step spec
    recompiled,          \* the graph a second do_compile(raw) call returns
    \* the collaborators
    global_inputs,       \* Plan.global_inputs: raw_data["inputs"]
    server_prompts,      \* the persona names the server lists
    ui,                  \* whether a user interface is attached (self.ui)
    \* a run
    context,             \* the blackboard context
    tracker,             \* the list of step records of the run
    status,              \* metadata["status"]
    pc,                  \* where the driver of the run is
    runner_calls,        \* how many times a Runner callback was invoked
    attempts,            \* the manager's attempts counter (self.attempts)
    max_attempts,        \* the manager's attempt budget (self.max_attempts)
    \* WorkflowStateMachine
    current_state_name,  \* WorkflowStateMachine.current_state_name
    calls,               \* how many times run_cycle was called
    ret,                 \* what the last run_cycle call returned
    \* ManagerAgent.run_tasks
    agents,              \* Plan.agents: the steps of the manager's plan, in order
    current_step_index,  \* run_tasks: current_step_index (0-based, as in the code)
    action,              \* run_tasks: the user's last answer to the failure prompt
    recovery_step,       \* run_tasks: the advisor's last decision
    recovery,            \* metadata["assets"]["recovery"]: failed step -> decisions
    advisor_requests,    \* get_recovery_step: the requests the last call sent the backend
    via,                 \* run_tasks: the statement that last sent the loop to its top
    \* history
    snapshot,            \* the context as it was before the last operation on it
    decisions,           \* per failed step, the advisor decisions made for it, in order
    exec_context,        \* run_cycle: the exec_context the Runner was last called with
    \* WorkerAgent.run_loop
    loops,               \* run_loop: loops
    max_loops,           \* run_loop: max_loops, the iteration cap
    response,            \* run_loop: response, the provider's last text
    chosen_tool,         \* run_loop: whether the step names an implicit tool
    returned_by,         \* run_loop: the statement that ended the loop
    \* parse_tool_response
    raw_response,        \* the raw return value of a tool call
    tool_result          \* the ToolResult parsed from it

planVars == <<raw0, raw, planStatus, states, recompiled>>

envVars == <<global_inputs, server_prompts, ui>>

runVars == <<context, tracker, status, pc, runner_calls, attempts, max_attempts>>

smVars == <<current_state_name, calls, ret>>

agentVars == <<agents, current_step_index, action, recovery_step, recovery,
               advisor_requests, via>>

histVars == <<snapshot, decisions, exec_context>>

workerVars == <<loops, max_loops, response, chosen_tool, returned_by>>

parseVars == <<raw_response, tool_result>>

vars == <<raw0, raw, planStatus, states, recompiled, global_inputs, server_prompts, ui,
          context, tracker, status, pc, runner_calls, attempts, max_attempts,
          current_state_name, calls, ret,
          agents, current_step_index, action, recovery_step, recovery, advisor_requests,
          via, snapshot, decisions, exec_context,
          loops, max_loops, response, chosen_tool, returned_by,
          raw_response, tool_result>>

----------------------------------------------------------------------------
(* Bounds of the model. *)

MaxPlanSteps == 2

MaxRunSteps == 2

MaxCalls == 3

MaxAttempts == 2

MaxAgentSteps == 3

----------------------------------------------------------------------------
(* Values. *)

NoneVal == "None"

EmptyDict == [k \in {} |-> NoneVal]

Names == <<"A", "B", "C", "D">>

Put(d, k, v) == [x \in DOMAIN d \cup {k} |-> IF x = k THEN v ELSE d[x]]

Truthy(v) == v # NoneVal /\ v # ""

\* context.get(key)
get(ctx, key) == IF key \in DOMAIN ctx THEN ctx[key] ELSE NoneVal

----------------------------------------------------------------------------
(* Plan documents: the step lists the compiler is given. *)

Events == {"success", "failure"}

Targets(n) == {Names[i] : i \in 1..n} \cup {"success", "failed", "ghost"}

TransitionDicts(n) == UNION {[S -> Targets(n)] : S \in SUBSET Events}

StepType(i) == IF i % 2 = 1 THEN "agent" ELSE "tool"

StepOptions(i, n) ==
    {[name |-> Names[i], type |-> StepType(i)]}
    \cup {[name |-> Names[i], type |-> StepType(i), transitions |-> t] : t \in TransitionDicts(n)}

RECURSIVE PlansFrom(_, _)
PlansFrom(i, n) ==
    IF i > n THEN {<<>>}
    ELSE {<<s>> \o rest : s \in StepOptions(i, n), rest \in PlansFrom(i + 1, n)}

\* documents that declare a step under the name of a terminal state
ReservedNameDocuments ==
    {<<[name |-> n, type |-> "agent"]>> : n \in {"success", "failed"}}
    \cup {<<[name |-> Names[1], type |-> "agent"], [name |-> n, type |-> "tool"]>> :
             n \in {"success", "failed"}}

\* documents in which two steps share a name
DuplicateNameDocuments ==
    {<<[name |-> Names[1], type |-> "agent"], s>> :
        s \in {[name |-> Names[1], type |-> "tool"],
               [name |-> Names[1], type |-> "tool", transitions |-> [failure |-> Names[1]]]}}

\* documents whose steps list is missing or empty (raw_data.get("steps", [])
\* is the empty list in both cases), or that hold a step without a name
MalformedDocuments ==
    {<<>>,
     <<[type |-> "agent"]>>,
     <<[name |-> Names[1], type |-> "agent"], [type |-> "tool"]>>}

PlanDocuments ==
    UNION {PlansFrom(1, n) : n \in 1..MaxPlanSteps}
    \cup ReservedNameDocuments \cup DuplicateNameDocuments \cup MalformedDocuments

----------------------------------------------------------------------------
(* Step: fractale/core/plan/step.py *)

\* Step.transitions: spec.get("transitions", {})
transitions(step) == IF "transitions" \in DOMAIN step THEN step.transitions ELSE EmptyDict

\* Step.get("initial")
initial(step) == IF "initial" \in DOMAIN step THEN step.initial ELSE FALSE

----------------------------------------------------------------------------
(* Plan: fractale/core/plan/plan.py *)

\* schema.validate_plan: TRUE when no ValueError is raised.  The validator
\* class replaces the handler of the "properties" keyword by set_defaults,
\* which fills defaults and reports no error, so nothing below "properties"
\* (the steps array, minItems, the items' required name) is validated; what
\* is left is the document's type and its own required name, which every
\* document here has.
validate_plan(steps) == TRUE

\* validate_transitions, line 84: s["name"] is read for every step
all_named(steps) == \A i \in DOMAIN steps : "name" \in DOMAIN steps[i]

\* validate_transitions: TRUE when no ValueError is raised
valid_targets(steps) == {steps[i].name : i \in DOMAIN steps} \cup {"success", "failed"}

\* a validation that looks at the success edge only
validate_transitions_success_only(steps) ==
    \A i \in DOMAIN steps :
        LET step == steps[i]
            tr == IF "transitions" \in DOMAIN step THEN step.transitions ELSE EmptyDict
        IN "success" \in DOMAIN tr => tr["success"] \in valid_targets(steps)

validate_transitions(steps) ==
    \A i \in DOMAIN steps :
        LET step == steps[i]
            tr == IF "transitions" \in DOMAIN step THEN step.transitions ELSE EmptyDict
        IN \A event \in DOMAIN tr : tr[event] \in valid_targets(steps)

\* the injection with the successor taken at the step's own index
compile_step_data_own_index(raw_steps, i) ==
    LET step_data == raw_steps[i]
        withTransitions ==
            IF "transitions" \notin DOMAIN step_data
            THEN step_data @@ [transitions |-> [success |-> raw_steps[i].name, failure |-> "failed"]]
            ELSE step_data
    IN IF i = 1
       THEN [k \in DOMAIN withTransitions \cup {"initial"} |->
                IF k = "initial" THEN TRUE ELSE withTransitions[k]]
       ELSE withTransitions

\* do_compile, lines 47-57: what the loop body leaves in step_data (the raw
\* step dict itself, which is updated in place)
compile_step_data(raw_steps, i) ==
    LET step_data == raw_steps[i]
        next_node == IF i + 1 <= Len(raw_steps) THEN raw_steps[i + 1].name ELSE "success"
        withTransitions ==
            IF "transitions" \notin DOMAIN step_data
            THEN step_data @@ [transitions |-> [success |-> next_node, failure |-> "failed"]]
            ELSE step_data
    IN IF i = 1
       THEN [k \in DOMAIN withTransitions \cup {"initial"} |->
                IF k = "initial" THEN TRUE ELSE withTransitions[k]]
       ELSE withTransitions

\* the raw step list after do_compile has run over it
compiled_raw(raw_steps) == [i \in DOMAIN raw_steps |-> compile_step_data(raw_steps, i)]

TerminalStates ==
    [n \in {"success", "failed"} |-> [name |-> n, type |-> "final"]]

RECURSIVE CompileFrom(_, _, _)
CompileFrom(raw_steps, i, compiled) ==
    IF i > Len(raw_steps) THEN compiled
    ELSE CompileFrom(raw_steps, i + 1,
                     Put(compiled, raw_steps[i].name, compile_step_data(raw_steps, i)))

\* a compiler that wraps a copy of each step taken before the defaults are injected
do_compile_copy_before_inject(raw_steps) ==
    [n \in {"success", "failed"} \cup {raw_steps[i].name : i \in DOMAIN raw_steps} |->
        IF \E i \in DOMAIN raw_steps : raw_steps[i].name = n
        THEN raw_steps[CHOOSE i \in DOMAIN raw_steps : raw_steps[i].name = n]
        ELSE TerminalStates[n]]

\* do_compile: the returned dict
do_compile(raw_steps) == CompileFrom(raw_steps, 1, TerminalStates)

----------------------------------------------------------------------------
(* Plan construction. *)

NoReturn == [step_meta |-> FALSE, finished |-> FALSE]

NoDecision == [agent_name |-> NoneVal, reason |-> NoneVal, index |-> -1]

\* no ManagerAgent at work
NoAgentManager ==
    /\ agents = <<>>
    /\ current_step_index = 0
    /\ action = NoneVal
    /\ recovery_step = NoDecision
    /\ recovery = EmptyDict
    /\ advisor_requests = 0
    /\ via = "start"
    /\ snapshot = EmptyDict
    /\ decisions = EmptyDict
    /\ exec_context = EmptyDict

\* no WorkerAgent at work
NoWorker ==
    /\ loops = 0
    /\ max_loops = 5
    /\ response = NoneVal
    /\ chosen_tool = FALSE
    /\ returned_by = NoneVal
    /\ raw_response = NoneVal
    /\ tool_result = NoneVal

\* nothing constructed, nothing run
Idle ==
    /\ context = EmptyDict
    /\ tracker = <<>>
    /\ status = "Pending"
    /\ pc = "new"
    /\ runner_calls = 0
    /\ attempts = 0
    /\ max_attempts = 10
    /\ current_state_name = NoneVal
    /\ calls = 0
    /\ ret = NoReturn
    /\ NoWorker

InitPlan ==
    /\ raw0 \in PlanDocuments
    /\ raw = raw0
    /\ planStatus = "new"
    /\ states = EmptyDict
    /\ recompiled = EmptyDict
    /\ global_inputs = EmptyDict
    /\ server_prompts = {}
    /\ ui = FALSE
    /\ Idle
    /\ NoAgentManager

\* Plan.__init__: validate_schema, validate_transitions, do_compile
PlanInit ==
    /\ planStatus = "new"
    /\ IF ~validate_plan(raw)
       THEN /\ planStatus' = "invalid"
            /\ UNCHANGED <<raw, states>>
       ELSE IF ~all_named(raw)
       THEN \* a KeyError leaves validate_transitions
            /\ planStatus' = "crashed"
            /\ UNCHANGED <<raw, states>>
       ELSE IF validate_transitions(raw)
       THEN /\ states' = do_compile(raw)
            /\ raw' = compiled_raw(raw)
            /\ planStatus' = "compiled"
       ELSE /\ planStatus' = "invalid"
            /\ UNCHANGED <<raw, states>>
    /\ UNCHANGED <<raw0, recompiled>>
    /\ UNCHANGED <<envVars, parseVars, workerVars, runVars, smVars, agentVars, histVars>>

\* a second do_compile over the same raw step list object
Recompile ==
    /\ planStatus = "compiled"
    /\ recompiled' = do_compile(raw)
    /\ raw' = compiled_raw(raw)
    /\ planStatus' = "recompiled"
    /\ UNCHANGED <<raw0, states>>
    /\ UNCHANGED <<envVars, parseVars, workerVars, runVars, smVars, agentVars, histVars>>

NextPlan == PlanInit \/ Recompile

SpecPlan == InitPlan /\ [][NextPlan]_vars

----------------------------------------------------------------------------
(* WorkflowStateMachine: fractale/engines/native/state_machine.py *)

\* an outcome that looks at the result only
OutcomeIgnoringError(result, error) == IF Truthy(result) THEN "success" ELSE "failure"

\* run_cycle, line 73
Outcome(result, error) ==
    IF Truthy(result) /\ ~Truthy(error) THEN "success" ELSE "failure"

\* a default that sends every outcome without an entry to failed
next_state_default_failed(step, outcome) ==
    LET tr == transitions(step)
    IN IF outcome \in DOMAIN tr THEN tr[outcome] ELSE "failed"

\* run_cycle, lines 74-80
next_state(step, outcome) ==
    LET tr == transitions(step)
        got == IF outcome \in DOMAIN tr THEN tr[outcome] ELSE NoneVal
    IN IF ~Truthy(got) /\ outcome = "success" THEN "success"
       ELSE IF ~Truthy(got) /\ outcome = "failure" THEN "failed"
       ELSE got

\* set_initial_state
initial_state_name(graph) ==
    IF \E n \in DOMAIN graph : initial(graph[n])
    THEN (CHOOSE n \in DOMAIN graph : initial(graph[n]))
    ELSE IF \E n \in DOMAIN graph : graph[n].type # "final"
         THEN (CHOOSE n \in DOMAIN graph : graph[n].type # "final")
         ELSE "failed"

----------------------------------------------------------------------------
(* Claims about the plan compiler. *)

\* the step list with the linear defaults written out for every step that
\* declares no transitions
ExplicitDefaults(steps) ==
    [i \in DOMAIN steps |->
        IF "transitions" \in DOMAIN steps[i] THEN steps[i]
        ELSE steps[i] @@ [transitions |->
                 [success |-> IF i < Len(steps) THEN steps[i + 1].name ELSE "success",
                  failure |-> "failed"]]]

SomeStepWithoutTransitions == \E i \in DOMAIN raw0 : "transitions" \notin DOMAIN raw0[i]

\* C7: a plan whose steps declare no transitions compiles to a graph that
\* starts in the same state and moves, from every state and on every outcome,
\* to the same next state as the plan with the defaults
\* {success: next declared step or "success", failure: "failed"} written out.
C7_ImplicitTransitionsAsExplicit ==
    planStatus = "compiled" =>
        LET explicit == do_compile(ExplicitDefaults(raw0))
        IN /\ DOMAIN states = DOMAIN explicit
           /\ initial_state_name(states) = initial_state_name(explicit)
           /\ \A n \in DOMAIN states : \A o \in Events :
                  next_state(states[n], o) = next_state(explicit[n], o)

C7_Witness ==
    /\ planStatus = "compiled"
    /\ Len(raw0) >= 2
    /\ "transitions" \notin DOMAIN raw0[1]
    /\ "transitions" \notin DOMAIN raw0[Len(raw0)]

\* C20: every compiled graph holds the terminal states success and failed,
\* both of kind final, and a document that declares a step named success
\* or failed is rejected, not compiled.
C20_TerminalStatesAreReserved ==
    /\ planStatus \in {"compiled", "recompiled"} =>
           \A n \in {"success", "failed"} :
               n \in DOMAIN states /\ states[n].type = "final"
    /\ (\E i \in DOMAIN raw0 :
            "name" \in DOMAIN raw0[i] /\ raw0[i].name \in {"success", "failed"}) =>
           planStatus \in {"new", "invalid"}

DuplicateNames(steps) ==
    /\ all_named(steps)
    /\ \E i, j \in DOMAIN steps : i # j /\ steps[i].name = steps[j].name

\* the steps of the compiled graph that carry the initial flag
FlaggedInitial == {n \in DOMAIN states : initial(states[n])}

\* C23: in every compiled graph exactly one step is flagged initial, it is
\* the first declared step, and the state machine built on the graph starts
\* in that step.
C23_FirstDeclaredStepIsInitial ==
    planStatus \in {"compiled", "recompiled"} =>
        /\ Cardinality(FlaggedInitial) = 1
        /\ raw0 # <<>>
        /\ FlaggedInitial = {raw0[1].name}
        /\ initial_state_name(states) = raw0[1].name

\* C22: a document whose steps list is missing or empty, or that holds a
\* step without a name, is rejected by the validation: construction ends
\* with a validation error and the document is never compiled.
C22_MalformedDocumentRejected ==
    (raw0 = <<>> \/ ~all_named(raw0)) => planStatus \in {"new", "invalid"}

\* C21: a document in which two steps share a name is rejected, never
\* compiled, and a compiled graph has one state for each declared step.
C21_DuplicateStepNameRejected ==
    /\ DuplicateNames(raw0) => planStatus \in {"new", "invalid"}
    /\ planStatus \in {"compiled", "recompiled"} =>
           Cardinality({n \in DOMAIN states : states[n].type # "final"}) = Len(raw0)

\* C8: a second compilation of the same raw step list, after the first one
\* has run on it, returns the graph the first one returned.
C8_CompileTwiceSameGraph ==
    planStatus = "recompiled" => recompiled = states

C8_Witness ==
    /\ planStatus = "recompiled"
    /\ SomeStepWithoutTransitions
    /\ raw # raw0

----------------------------------------------------------------------------
(* Plans that are run: a small family with linear defaults, empty           *)
(* transitions, failure loops, rewinds to the first step and a dangling     *)
(* target.                                                                   *)

RunTransitionChoices(i, n) ==
    {EmptyDict,
     [failure |-> Names[i]],
     [success |-> "success", failure |-> Names[1]],
     [failure |-> "ghost"]}

RunStepBase(i) ==
    IF StepType(i) = "agent"
    THEN [name |-> Names[i], type |-> "agent", prompt |-> "persona"]
    ELSE [name |-> Names[i], type |-> "tool", tool |-> "echo"]

RunStepOptions(i, n) ==
    {RunStepBase(i)}
    \cup {RunStepBase(i) @@ [transitions |-> t] : t \in RunTransitionChoices(i, n)}

RECURSIVE RunPlansFrom(_, _)
RunPlansFrom(i, n) ==
    IF i > n THEN {<<>>}
    ELSE {<<s>> \o rest : s \in RunStepOptions(i, n), rest \in RunPlansFrom(i + 1, n)}

\* plans of one tool step, as {name, type: tool, tool: echo}
ToolStep == [name |-> Names[1], type |-> "tool", tool |-> "echo"]

ToolOnlyDocuments ==
    {<<ToolStep>>} \cup {<<ToolStep @@ [transitions |-> t]>> : t \in RunTransitionChoices(1, 1)}

RunDocuments == UNION {RunPlansFrom(1, n) : n \in 1..MaxRunSteps} \cup ToolOnlyDocuments

----------------------------------------------------------------------------
(* WorkflowStateMachine.run_cycle and update_context                        *)

StepResultKey ==
    [n \in {Names[i] : i \in DOMAIN Names} |->
        CASE n = "A" -> "A_result"
          [] n = "B" -> "B_result"
          [] n = "C" -> "C_result"
          [] OTHER -> "D_result"]

JsonText == "{\"id\": 7}"

ParsedJson == "dict(id=7)"

\* a write-back that never parses
parsed_data_raw(result) == result

\* json.loads(result) where it succeeds, otherwise the raw string (lines 106-111)
parsed_data(result) == IF result = JsonText THEN ParsedJson ELSE result

\* a write-back that stores the result even when there is none
update_context_always_writes(ctx, step_name, result, error) ==
    LET c1 == IF Truthy(error) THEN Put(ctx, "_last_error", error) ELSE ctx
    IN Put(Put(Put(c1, "_previous_result", result),
               "result", parsed_data(result)),
           StepResultKey[step_name], parsed_data(result))

\* WorkflowStateMachine.update_context
update_context(ctx, step_name, result, error) ==
    LET c1 == IF Truthy(error) THEN Put(ctx, "_last_error", error) ELSE ctx
    IN IF result # NoneVal
       THEN Put(Put(Put(c1, "_previous_result", result),
                    "result", parsed_data(result)),
                StepResultKey[step_name], parsed_data(result))
       ELSE c1

\* Step.inputs: spec.get("inputs", {})
spec_inputs(step) == IF "inputs" \in DOMAIN step THEN step.inputs ELSE EmptyDict

Template == "{{ data }}"

\* utils.resolve_templates(inputs, context): every value that is a template
\* is rendered against the context (an undefined name renders as the empty
\* string), every other value is kept
resolve_templates(inp, ctx) ==
    [k \in DOMAIN inp |->
        IF inp[k] = Template
        THEN (IF "data" \in DOMAIN ctx THEN ctx["data"] ELSE "")
        ELSE inp[k]]

\* an overlay in which the context wins on a key conflict
overlay_context_wins(ctx, step_inputs) ==
    [k \in DOMAIN ctx \cup DOMAIN step_inputs |->
        IF k \in DOMAIN ctx THEN ctx[k] ELSE step_inputs[k]]

\* run_cycle, lines 60-62: exec_context = context.copy(); exec_context.update(step_inputs)
overlay(ctx, step_inputs) ==
    [k \in DOMAIN ctx \cup DOMAIN step_inputs |->
        IF k \in DOMAIN step_inputs THEN step_inputs[k] ELSE ctx[k]]

\* run_cycle, line 49
is_final_success_only(step) == step.name = "success"

is_final(step) == step.type = "final"

NoMeta == [agent |-> NoneVal, result |-> NoneVal, error |-> NoneVal,
           outcome |-> NoneVal, next |-> NoneVal]

\* run_cycle: what one call does to the machine and what it returns, given
\* what the Runner returns if it is invoked.  raised: an exception leaves
\* run_cycle (no such state, or no runner for the step's type).
run_cycle(graph, cur, ctx, result, error) ==
    IF cur \notin DOMAIN graph
    THEN [raised |-> TRUE, finished |-> FALSE, step_meta |-> FALSE, meta |-> NoMeta,
          context |-> ctx, current_state_name |-> cur, invoked |-> 0,
          exec_context |-> EmptyDict]
    ELSE IF is_final(graph[cur])
    THEN [raised |-> FALSE, finished |-> TRUE, step_meta |-> FALSE, meta |-> NoMeta,
          context |-> ctx, current_state_name |-> cur, invoked |-> 0,
          exec_context |-> EmptyDict]
    ELSE IF graph[cur].type \notin {"agent", "tool"}
    THEN [raised |-> TRUE, finished |-> FALSE, step_meta |-> FALSE, meta |-> NoMeta,
          context |-> ctx, current_state_name |-> cur, invoked |-> 0,
          exec_context |-> EmptyDict]
    ELSE LET outcome == Outcome(result, error)
             next == next_state(graph[cur], outcome)
         IN [raised |-> FALSE, finished |-> FALSE, step_meta |-> TRUE,
             meta |-> [agent |-> cur, result |-> result, error |-> error,
                       outcome |-> outcome, next |-> next],
             context |-> update_context(ctx, graph[cur].name, result, error),
             current_state_name |-> next, invoked |-> 1,
             exec_context |-> overlay(ctx, resolve_templates(spec_inputs(graph[cur]), ctx))]

\* a trace that keeps only the record of the latest cycle
append_step_meta_latest_only(trk, r) == IF r.step_meta THEN <<r.meta>> ELSE trk

\* Manager.run, lines 81-82: the record run_cycle returned, if any, is appended
append_step_meta(trk, r) == IF r.step_meta THEN Append(trk, r.meta) ELSE trk

\* what a Runner callback may return: (result, error)
Results == {NoneVal, "", "ok", JsonText}

Errors == {NoneVal, "", "boom"}

RunnerReturns == Results \X Errors

CallerContexts == {EmptyDict, [data |-> "c"]}

----------------------------------------------------------------------------
(* The state machine driven directly: construction, then run_cycle calls.   *)

InitSM ==
    /\ raw0 \in RunDocuments
    /\ raw = raw0
    /\ planStatus = "new"
    /\ states = EmptyDict
    /\ recompiled = EmptyDict
    /\ global_inputs = EmptyDict
    /\ server_prompts = {}
    /\ ui = FALSE
    /\ Idle
    /\ NoAgentManager

\* WorkflowStateMachine.__init__
SMInit ==
    /\ planStatus = "compiled"
    /\ pc = "new"
    /\ \E c \in CallerContexts : context' = c
    /\ current_state_name' = initial_state_name(states)
    /\ pc' = "sm"
    /\ UNCHANGED <<planVars, envVars, parseVars, workerVars, tracker, status, runner_calls, attempts, max_attempts,
                   calls, ret, agentVars, histVars>>

\* one call of run_cycle by the machine's owner, who keeps the returned record
SMRunCycle ==
    /\ pc = "sm"
    /\ calls < MaxCalls
    /\ \E out \in RunnerReturns :
         LET r == run_cycle(states, current_state_name, context, out[1], out[2])
         IN /\ calls' = calls + 1
            /\ pc' = IF r.raised THEN "raised" ELSE "sm"
            /\ context' = r.context
            /\ current_state_name' = r.current_state_name
            /\ runner_calls' = runner_calls + r.invoked
            /\ tracker' = append_step_meta(tracker, r)
            /\ ret' = [step_meta |-> r.step_meta, finished |-> r.finished]
            /\ exec_context' = IF r.invoked = 1 THEN r.exec_context ELSE exec_context
    /\ UNCHANGED <<planVars, envVars, parseVars, workerVars, status, attempts, max_attempts, agentVars,
                   snapshot, decisions>>

NextSM == PlanInit \/ SMInit \/ SMRunCycle

SpecSM == InitSM /\ [][NextSM]_vars

----------------------------------------------------------------------------
(* The state machine on plans whose steps declare inputs. *)

MaxExecSteps == 2

\* a literal override of a key the caller may supply, and a template next
\* to a key no one else writes
ExecInputChoices == {[data |-> "in"], [data |-> Template, extra |-> "x"]}

ExecStepOptions(i) ==
    {RunStepBase(i)} \cup {RunStepBase(i) @@ [inputs |-> inp] : inp \in ExecInputChoices}

RECURSIVE ExecPlansFrom(_, _)
ExecPlansFrom(i, n) ==
    IF i > n THEN {<<>>}
    ELSE {<<st>> \o rest : st \in ExecStepOptions(i), rest \in ExecPlansFrom(i + 1, n)}

ExecDocuments == UNION {ExecPlansFrom(1, n) : n \in 1..MaxExecSteps}

InitExec ==
    /\ raw0 \in ExecDocuments
    /\ raw = raw0
    /\ planStatus = "new"
    /\ states = EmptyDict
    /\ recompiled = EmptyDict
    /\ global_inputs = EmptyDict
    /\ server_prompts = {}
    /\ ui = FALSE
    /\ Idle
    /\ NoAgentManager

SpecExec == InitExec /\ [][NextSM]_vars

\* the keys the write-back of a cycle of step s is said to write
ReservedKeys(s) == {"result", "error_message", "_previous_result", StepResultKey[s]}

\* the keys update_context writes for step s
WriteBackKeys(s) == {"result", "_last_error", "_previous_result", StepResultKey[s]}

\* a cycle that invokes the Runner hands it the context overlaid with the
\* step's resolved inputs, and changes the shared context only at the keys K
CycleFrame(K) ==
    runner_calls' = runner_calls + 1 =>
        LET step == states[current_state_name]
            over == resolve_templates(spec_inputs(step), context)
        IN /\ DOMAIN exec_context' = DOMAIN context \cup DOMAIN over
           /\ \A k \in DOMAIN over : exec_context'[k] = over[k]
           /\ \A k \in DOMAIN context \ DOMAIN over : exec_context'[k] = context[k]
           /\ \A k \in (DOMAIN context \cup DOMAIN context') \ K :
                  k \in DOMAIN context /\ k \in DOMAIN context' /\ context'[k] = context[k]

\* C33 as stated: the Runner receives the context overlaid with the step's
\* resolved inputs, the inputs winning on a key conflict, and the cycle
\* changes the shared context only at result, error_message,
\* _previous_result and <s>_result.
C33_ExecContextIsOverlay ==
    [][CycleFrame(ReservedKeys(states[current_state_name].name))]_vars

\* C33, amended: the same, the keys the cycle may change being result,
\* _last_error, _previous_result and <s>_result.
C33_ExecContextIsOverlayLastError ==
    [][CycleFrame(WriteBackKeys(states[current_state_name].name))]_vars

\* the Runner was handed the step's value of data, and the shared context
\* still holds the caller's
C33_Witness ==
    /\ runner_calls >= 1
    /\ "data" \in DOMAIN exec_context /\ exec_context["data"] = "in"
    /\ "extra" \notin DOMAIN context
    /\ "data" \in DOMAIN context /\ context["data"] = "c"
    /\ "_last_error" \in DOMAIN context

----------------------------------------------------------------------------
(* Claims about the state machine. *)

\* C4: every recorded cycle is labelled "success" exactly when the Runner's
\* result is truthy and its error is empty (so an empty result without an
\* error is a failure), and the machine took the transition of that label.
C4_SuccessIffResultAndNoError ==
    \A i \in DOMAIN tracker :
        LET m == tracker[i]
            ok == m.result \notin {NoneVal, ""} /\ m.error \in {NoneVal, ""}
        IN /\ (m.outcome = "success") <=> ok
           /\ (m.outcome = "failure") <=> ~ok
           /\ m.next = next_state(states[m.agent], IF ok THEN "success" ELSE "failure")

C4_Witness ==
    \E i, j, k \in DOMAIN tracker :
        /\ tracker[i].result = "" /\ tracker[i].error = NoneVal
        /\ tracker[i].outcome = "failure"
        /\ tracker[j].result = "ok" /\ tracker[j].error = "boom"
        /\ tracker[j].outcome = "failure"
        /\ tracker[k].outcome = "success"

\* the record of the last executed cycle
LastCycle == tracker[Len(tracker)]

\* the structured form of a result that is a serialized object, else the result
Structured(result) == IF result = JsonText THEN ParsedJson ELSE result

\* C32 as stated: after a non-terminal cycle of step s the context holds the
\* cycle's result under result and <s>_result (structured where it parses),
\* the raw result under _previous_result and the cycle's error under
\* error_message.
C32_WriteBack ==
    tracker # <<>> =>
        /\ get(context, "result") = Structured(LastCycle.result)
        /\ get(context, StepResultKey[LastCycle.agent]) = Structured(LastCycle.result)
        /\ get(context, "_previous_result") = LastCycle.result
        /\ get(context, "error_message") = LastCycle.error

\* C32, amended: when the cycle's result is not None the three result keys
\* hold it as stated; a non-empty error is held under _last_error; the key
\* error_message is not written.
C32_WriteBackOfResultAndLastError ==
    tracker # <<>> =>
        /\ LastCycle.result # NoneVal =>
               /\ "result" \in DOMAIN context
               /\ context["result"] = Structured(LastCycle.result)
               /\ StepResultKey[LastCycle.agent] \in DOMAIN context
               /\ context[StepResultKey[LastCycle.agent]] = Structured(LastCycle.result)
               /\ "_previous_result" \in DOMAIN context
               /\ context["_previous_result"] = LastCycle.result
        /\ Truthy(LastCycle.error) =>
               "_last_error" \in DOMAIN context /\ context["_last_error"] = LastCycle.error
        /\ "error_message" \notin DOMAIN context

\* a cycle returned a serialized object together with an error
C32_Witness ==
    /\ tracker # <<>>
    /\ LastCycle.result = JsonText /\ LastCycle.error = "boom"
    /\ context["result"] = ParsedJson
    /\ context["_previous_result"] = JsonText
    /\ context["_last_error"] = "boom"

\* the keys of the context that hold results of cycles
ResultKeys == {"result", "_previous_result"} \cup
              {StepResultKey[n] : n \in DOMAIN StepResultKey}

\* the last recorded cycle up to i that produced a result, 0 when none did
RECURSIVE LastWithResult(_)
LastWithResult(i) ==
    IF i = 0 THEN 0
    ELSE IF tracker[i].result # NoneVal THEN i
    ELSE LastWithResult(i - 1)

\* C40: a cycle whose Runner returns no result leaves result,
\* _previous_result and every <step>_result key of the context as they
\* were, so that result still holds the output of the last cycle that
\* produced one.
C40_NoResultLeavesResultsUnchanged ==
    /\ [][(/\ Len(tracker') = Len(tracker) + 1
           /\ tracker'[Len(tracker')].result = NoneVal)
          => \A k \in ResultKeys :
                 /\ k \in DOMAIN context' <=> k \in DOMAIN context
                 /\ k \in DOMAIN context => context'[k] = context[k]]_vars
    /\ [](LastWithResult(Len(tracker)) # 0 =>
              get(context, "result")
                  = Structured(tracker[LastWithResult(Len(tracker))].result))

C40_Witness ==
    /\ Len(tracker) >= 2
    /\ LastCycle.result = NoneVal
    /\ LastCycle.error = "boom"
    /\ tracker[Len(tracker) - 1].result = JsonText
    /\ get(context, "result") = ParsedJson
    /\ get(context, "_previous_result") = JsonText
    /\ StepResultKey[LastCycle.agent] \notin DOMAIN context

C5_TerminalCycleIsInert ==
    [][(/\ pc = "sm"
        /\ states[current_state_name].type = "final"
        /\ calls' = calls + 1)
       => (/\ ret' = [step_meta |-> FALSE, finished |-> TRUE]
           /\ context' = context
           /\ current_state_name' = current_state_name
           /\ runner_calls' = runner_calls
           /\ tracker' = tracker
           /\ pc' = "sm")]_vars

C5_Witness ==
    /\ pc = "sm"
    /\ ret = [step_meta |-> FALSE, finished |-> TRUE]
    /\ calls - Len(tracker) >= 2
    /\ runner_calls = Len(tracker)

----------------------------------------------------------------------------
(* Manager: fractale/engines/native/manager.py *)

\* merge only into a context that holds nothing yet
merge_global_inputs_if_empty(ctx, inputs) == IF DOMAIN ctx = {} THEN inputs ELSE ctx

\* a merge in which the plan's value wins
merge_global_inputs_plan_wins(ctx, inputs) ==
    [k \in DOMAIN ctx \cup DOMAIN inputs |-> IF k \in DOMAIN inputs THEN inputs[k] ELSE ctx[k]]

\* run, line 52: context.managed = True (an attribute of the context is a key
\* of it, as context.result and context.get("result") in MCPAgent.run_step)
set_managed(ctx) == Put(ctx, "managed", "True")

\* run, lines 55-57
merge_global_inputs(ctx, inputs) ==
    [k \in DOMAIN ctx \cup DOMAIN inputs |-> IF k \in DOMAIN ctx THEN ctx[k] ELSE inputs[k]]

\* Step.prompt
prompt(step) == IF "prompt" \in DOMAIN step THEN step.prompt ELSE NoneVal

\* a validation that accepts every persona
personas_valid_unchecked(graph, available_names) == TRUE

\* connect_and_validate, lines 222-228: TRUE when no ValueError is raised
personas_valid(graph, available_names) ==
    \A n \in DOMAIN graph :
        graph[n].type = "agent" => prompt(graph[n]) \in available_names

\* run_tool, lines 169-198: (result, error)
ToolReturns ==
    {<<"ok", NoneVal>>, <<"", NoneVal>>, <<"Error: x", "Error: x">>, <<NoneVal, "boom">>}

\* run_agent, lines 144-156: (result, error)
AgentReturns ==
    {<<"ok", NoneVal>>, <<"", NoneVal>>, <<JsonText, NoneVal>>, <<NoneVal, "boom">>}

runner_returns(graph, cur) ==
    IF cur \in DOMAIN graph /\ graph[cur].type = "tool" THEN ToolReturns ELSE AgentReturns

GlobalInputChoices == {EmptyDict, [data |-> "g", result |-> "g0"]}

InitNative ==
    /\ raw0 \in RunDocuments
    /\ raw = raw0
    /\ planStatus = "new"
    /\ states = EmptyDict
    /\ recompiled = EmptyDict
    /\ global_inputs \in GlobalInputChoices
    /\ server_prompts \in {{"persona"}, {}}
    /\ ui \in BOOLEAN
    /\ context = EmptyDict
    /\ tracker = <<>>
    /\ status = "Pending"
    /\ pc = "new"
    /\ runner_calls = 0
    /\ attempts = 0
    /\ max_attempts \in 1..MaxAttempts
    /\ current_state_name = NoneVal
    /\ calls = 0
    /\ ret = NoReturn
    /\ NoWorker
    /\ NoAgentManager

\* Manager.run, lines 51-74: merge the global inputs, validate the personas,
\* build the state machine
ManagerRun ==
    /\ planStatus = "compiled"
    /\ pc = "new"
    /\ \E c \in CallerContexts :
         /\ snapshot' = c
         /\ context' = merge_global_inputs(set_managed(c), global_inputs)
         /\ IF personas_valid(states, server_prompts)
            THEN /\ current_state_name' = initial_state_name(states)
                 /\ status' = "running"
                 /\ pc' = "loop"
            ELSE /\ pc' = "raised"
                 /\ UNCHANGED <<current_state_name, status>>
    /\ UNCHANGED <<decisions, exec_context, planVars, envVars, parseVars, workerVars, tracker, runner_calls, attempts, max_attempts, calls, ret,
                   agentVars>>

\* a retry that leaves the machine where the failed cycle put it
retry_state_not_rewound(step_meta) == step_meta.next

\* Manager.run, line 100: the state a retry rewinds the machine to
retry_state(step_meta) == step_meta.agent

\* Manager.run, lines 79-115: one iteration of the execution loop
ManagerLoop ==
    /\ pc = "loop"
    /\ calls < MaxCalls
    /\ \E out \in runner_returns(states, current_state_name), answer \in {"retry", "quit"} :
         LET r == run_cycle(states, current_state_name, context, out[1], out[2])
         IN /\ calls' = calls + 1
            /\ runner_calls' = runner_calls + r.invoked
            /\ context' = r.context
            /\ ret' = [step_meta |-> r.step_meta, finished |-> r.finished]
            /\ tracker' = append_step_meta(tracker, r)
            /\ exec_context' = IF r.invoked = 1 THEN r.exec_context ELSE exec_context
            /\ IF r.raised
               THEN /\ status' = "Failed"
                    /\ pc' = "raised"
                    /\ current_state_name' = r.current_state_name
                    /\ via' = "raised"
                    /\ UNCHANGED action
               ELSE IF r.finished
               THEN /\ status' = r.current_state_name
                    /\ pc' = "done"
                    /\ current_state_name' = r.current_state_name
                    /\ via' = "finished"
                    /\ UNCHANGED action
               ELSE IF r.meta.outcome = "failure" /\ r.current_state_name = "failed" /\ ui
               THEN /\ action' = answer
                    /\ IF answer = "retry"
                       THEN /\ current_state_name' = retry_state(r.meta)
                            /\ pc' = "loop"
                            /\ via' = "retry"
                            /\ UNCHANGED status
                       ELSE /\ current_state_name' = r.current_state_name
                            /\ pc' = "done"
                            /\ via' = "quit"
                            /\ UNCHANGED status
               ELSE /\ current_state_name' = r.current_state_name
                    /\ pc' = "loop"
                    /\ via' = "cycle"
                    /\ UNCHANGED <<status, action>>
    /\ UNCHANGED <<planVars, envVars, parseVars, workerVars, attempts, max_attempts, agents,
                   current_step_index, recovery_step, recovery, advisor_requests,
                   snapshot, decisions>>

NextNative == PlanInit \/ ManagerRun \/ ManagerLoop

SpecNative == InitNative /\ [][NextNative]_vars

----------------------------------------------------------------------------
(* Claims about the native Manager. *)

FailedCycles == {i \in DOMAIN tracker : tracker[i].outcome = "failure"}

\* C2: the Manager's loop is bounded by the attempt budget whatever the
\* shape of the graph: a run never executes more failed cycles than
\* max_attempts.
C2_FailedCyclesWithinBudget ==
    Cardinality(FailedCycles) <= max_attempts

\* run() has set up the initial context and no cycle has run yet; snapshot
\* is the context the caller supplied
InitialContextSet == planStatus = "compiled" /\ pc \in {"loop", "raised"} /\ calls = 0

\* C12 as stated: after the merge every caller key keeps the caller's
\* value, every global-input key the caller did not supply has the plan's
\* value, and no other key is added or changed.
C12_MergeFrame ==
    InitialContextSet =>
        /\ \A k \in DOMAIN snapshot : k \in DOMAIN context /\ context[k] = snapshot[k]
        /\ \A k \in DOMAIN global_inputs \ DOMAIN snapshot :
               k \in DOMAIN context /\ context[k] = global_inputs[k]
        /\ DOMAIN context \subseteq DOMAIN snapshot \cup DOMAIN global_inputs

\* C12, amended: the same frame for every key other than managed, and
\* run() sets the key managed to True.
C12_MergeFrameButManaged ==
    InitialContextSet =>
        /\ \A k \in DOMAIN snapshot \ {"managed"} :
               k \in DOMAIN context /\ context[k] = snapshot[k]
        /\ \A k \in DOMAIN global_inputs \ (DOMAIN snapshot \cup {"managed"}) :
               k \in DOMAIN context /\ context[k] = global_inputs[k]
        /\ DOMAIN context \subseteq DOMAIN snapshot \cup DOMAIN global_inputs \cup {"managed"}
        /\ "managed" \in DOMAIN context /\ context["managed"] = "True"

C12_Witness ==
    /\ InitialContextSet
    /\ "data" \in DOMAIN snapshot /\ "data" \in DOMAIN global_inputs
    /\ snapshot["data"] # global_inputs["data"]
    /\ context["data"] = snapshot["data"]
    /\ "result" \in DOMAIN global_inputs /\ "result" \notin DOMAIN snapshot
    /\ context["result"] = global_inputs["result"]

\* an agent step of the compiled plan names a persona the server does not list
UnknownPersona ==
    /\ planStatus = "compiled"
    /\ \E n \in DOMAIN states :
           states[n].type = "agent" /\ prompt(states[n]) \notin server_prompts

\* C13: when an agent step names a persona the server does not list, run()
\* raises during validation: the state machine is never built, no step is
\* executed or recorded and no Runner is invoked.
C13_UnknownPersonaFailsBeforeAnyStep ==
    UnknownPersona =>
        /\ pc \in {"new", "raised"}
        /\ runner_calls = 0
        /\ calls = 0
        /\ tracker = <<>>
        /\ current_state_name = NoneVal

C13_Witness ==
    /\ UnknownPersona
    /\ pc = "raised"
    /\ runner_calls = 0
    /\ "managed" \in DOMAIN context

\* the plan is one tool step with default transitions
SingleToolPlan ==
    /\ Len(raw0) = 1
    /\ raw0[1].type = "tool"
    /\ "transitions" \notin DOMAIN raw0[1]

\* C11: for a plan of one tool step with default transitions whose tool
\* call returns non-empty, non-error content, the run executes that step
\* once, records one telemetry entry (the content, no error, outcome
\* success) and is in the terminal state success, which run() reports.
C11_SingleToolStepEndsInSuccess ==
    (/\ SingleToolPlan
     /\ tracker # <<>>
     /\ tracker[1].result = "ok"
     /\ tracker[1].error = NoneVal)
    => /\ Len(tracker) = 1
       /\ runner_calls = 1
       /\ tracker[1] = [agent |-> raw0[1].name, result |-> "ok", error |-> NoneVal,
                        outcome |-> "success", next |-> "success"]
       /\ current_state_name = "success"
       /\ pc \in {"loop", "done"}
       /\ pc = "done" => (status = "success" /\ calls = 2)

C11_Witness ==
    /\ SingleToolPlan
    /\ pc = "done"
    /\ status = "success"
    /\ Len(tracker) = 1
    /\ tracker[1].result = "ok"
    /\ runner_calls = 1

\* a step of the document names a target that is neither a declared step
\* nor a terminal
Dangling(steps) ==
    \E i \in DOMAIN steps :
        /\ "transitions" \in DOMAIN steps[i]
        /\ \E e \in DOMAIN steps[i].transitions :
               steps[i].transitions[e] \notin
                   {steps[j].name : j \in DOMAIN steps} \cup {"success", "failed"}

\* C6: a plan with a dangling transition target is never constructed: no
\* graph, no state machine, no Runner call and no recorded step.
C6_DanglingTargetNeverRuns ==
    Dangling(raw0) =>
        /\ planStatus \in {"new", "invalid"}
        /\ states = EmptyDict
        /\ pc = "new"
        /\ current_state_name = NoneVal
        /\ runner_calls = 0
        /\ tracker = <<>>

C6_Witness ==
    /\ Dangling(raw0)
    /\ planStatus = "invalid"

\* C27: when the user answers retry after a failed cycle, the machine is put
\* back on the step that failed, the next recorded cycle is a cycle of that
\* same step, and no request goes to the recovery advisor.
C27_RetryRerunsFailedStep ==
    /\ via = "retry" =>
           /\ pc = "loop"
           /\ current_state_name = tracker[Len(tracker)].agent
           /\ ~is_final(states[current_state_name])
           /\ advisor_requests = 0
    /\ \A k \in 1..(Len(tracker) - 1) :
           (tracker[k].outcome = "failure" /\ tracker[k].next = "failed") =>
               tracker[k + 1].agent = tracker[k].agent

\* a failed first cycle was retried and the retried cycle has been recorded
C27_Witness ==
    /\ action = "retry"
    /\ Len(tracker) >= 2
    /\ tracker[1].outcome = "failure" /\ tracker[1].next = "failed"
    /\ tracker[2].agent = tracker[1].agent

\* C31: the trace is append-only.  A step of the run that executes a
\* non-terminal cycle appends exactly one record, the record of the step
\* that was current, after the records already there; any other step of the
\* run (a terminal cycle, a retry the user asks for) leaves the trace as it
\* is; no record already in the trace is changed or removed.
C31_TraceIsAppendOnly ==
    [][/\ runner_calls' - runner_calls \in {0, 1}
       /\ Len(tracker') = Len(tracker) + (runner_calls' - runner_calls)
       /\ SubSeq(tracker', 1, Len(tracker)) = tracker
       /\ runner_calls' = runner_calls + 1 =>
              /\ tracker'[Len(tracker')].agent = current_state_name
              /\ ~is_final(states[current_state_name])
       /\ Len(tracker') = runner_calls']_vars

\* three cycles were executed and recorded, one of them after a retry
C31_Witness ==
    /\ Len(tracker) = 3 /\ runner_calls = 3
    /\ action = "retry"
    /\ \E k \in 1..2 : tracker[k].next = "failed" /\ tracker[k + 1].agent = tracker[k].agent

\* the names a transition may point at: the declared steps and the terminals
DeclaredOrTerminal == {raw0[i].name : i \in DOMAIN raw0} \cup {"success", "failed"}

\* C24: once the plan is compiled every transition target of every state
\* names a declared step or a terminal, and from the construction of the
\* state machine on current_state_name names a state of the compiled graph,
\* after a normal transition as well as after a retry the user asked for.
C24_CurrentStateIsInGraph ==
    /\ planStatus = "compiled" =>
           \A n \in DOMAIN states : \A e \in DOMAIN transitions(states[n]) :
               /\ transitions(states[n])[e] \in DeclaredOrTerminal
               /\ transitions(states[n])[e] \in DOMAIN states
    /\ status # "Pending" => current_state_name \in DOMAIN states

\* a failed cycle was retried at the user's request, the retried step then
\* succeeded and the machine moved on to another step
C24_Witness ==
    /\ Len(tracker) >= 2
    /\ tracker[1].outcome = "failure" /\ tracker[1].next = "failed"
    /\ tracker[2].agent = tracker[1].agent
    /\ tracker[2].outcome = "success"
    /\ current_state_name \in DOMAIN states
    /\ current_state_name \notin {"success", "failed", tracker[1].agent}

----------------------------------------------------------------------------
(* Context reset: fractale/agent/base.py                                    *)

\* the keys a reset clears: result, error_message and every <step>_result
state_variables ==
    {"result", "error_message"} \cup {StepResultKey[n] : n \in DOMAIN StepResultKey}

\* a reset that empties the whole dict
reset_context_clear_all(ctx) == EmptyDict

\* Agent.reset_context, lines 80-87: delete every state variable that is present
reset_context(ctx) == [k \in DOMAIN ctx \ state_variables |-> ctx[k]]

\* Context.reset(), called by run_tasks when a step succeeds
Context_reset(ctx) == [k \in DOMAIN ctx \ state_variables |-> ctx[k]]


----------------------------------------------------------------------------
(* ManagerAgent: fractale/agent/manager/agent.py                            *)
(* The unbound names of run_tasks and get_recovery_step are read as the     *)
(* variables bound at that point: err as error, step_json and recovery_step *)
(* (in get_recovery_step) as next_step, failed_step.agent as its name.      *)

\* a merge that fills in only the keys the context does not hold
step_update_context_if_absent(ctx, step) ==
    LET inputs == step.inputs
        merged == DOMAIN inputs \ {"max_attempts", "llm_provider", "llm_model"}
    IN [k \in DOMAIN ctx \cup merged |-> IF k \in DOMAIN ctx THEN ctx[k] ELSE inputs[k]]

\* Step.update_context (fractale/agent/manager/plan.py): merge the step's inputs
step_update_context(ctx, step) ==
    LET inputs == step.inputs
        merged == DOMAIN inputs \ {"max_attempts", "llm_provider", "llm_model"}
    IN [k \in DOMAIN ctx \cup merged |-> IF k \in merged THEN inputs[k] ELSE ctx[k]]

\* Agent.run, line 54
set_max_attempts(ctx, step) ==
    Put(ctx, "max_attempts",
        IF Truthy(step.max_attempts) THEN step.max_attempts ELSE get(ctx, "max_attempts"))

RECURSIVE ResetThrough(_, _, _, _)
ResetThrough(ctx, steps, i, failed_name) ==
    IF i > Len(steps) THEN ctx
    ELSE LET c == reset_context(ctx)
         IN IF failed_name # NoneVal /\ steps[i].name = failed_name THEN c
            ELSE ResetThrough(c, steps, i + 1, failed_name)

RECURSIVE ResetBefore(_, _, _, _)
ResetBefore(ctx, steps, i, failed_name) ==
    IF i > Len(steps) THEN ctx
    ELSE IF failed_name # NoneVal /\ steps[i].name = failed_name THEN ctx
    ELSE ResetBefore(reset_context(ctx), steps, i + 1, failed_name)

\* a rewind whose loop tests for the target before it resets
manager_reset_context_test_first(ctx, steps, failed_name) ==
    ResetBefore(ctx, steps, 1, failed_name)

\* ManagerAgent.reset_context: reset for every step from the first through
\* failed_step (through the last one when failed_step is None)
manager_reset_context(ctx, steps, failed_name) == ResetThrough(ctx, steps, 1, failed_name)

\* a limit that lets one more failed cycle recover
reached_max_attempts_late(a, m) == a > m

\* ManagerAgent.reached_max_attempts
reached_max_attempts(a, m) == a >= m

\* run_tasks, line 280
advice(error, hint) ==
    IF Truthy(error) THEN "Previous Error: boom / User Advice: hint"
    ELSE "Previous Error: None / User Advice: hint"

\* prompts.get_retry_prompt(context, reason): a message that embeds the reason
get_retry_prompt(reason) ==
    IF reason = "bad input" THEN "retry: bad input"
    ELSE IF reason = "missing file" THEN "retry: missing file"
    ELSE "retry"

\* a rewind that seeds error_message before it resets the context
rewind_context_seed_first(ctx, steps, target, reason) ==
    manager_reset_context(Put(ctx, "error_message", get_retry_prompt(reason)), steps, target)

\* run_tasks, lines 303-308: the context is reset through the target step,
\* then error_message is seeded with the retry prompt
rewind_context(ctx, steps, target, reason) ==
    Put(manager_reset_context(ctx, steps, target), "error_message", get_retry_prompt(reason))

\* get_recovery_step, lines 117-122: index of the first step of that name, -1 if none
found_index(steps, agent_name) ==
    IF \E i \in DOMAIN steps : steps[i].name = agent_name
    THEN (CHOOSE i \in DOMAIN steps :
              /\ steps[i].name = agent_name
              /\ \A j \in 1..(i - 1) : steps[j].name # agent_name) - 1
    ELSE -1

\* the manager's plans: steps with a name, a persona and inputs
AgentInputChoices(i) ==
    IF i = 1 THEN {EmptyDict, [data |-> "in"]}
    ELSE {EmptyDict, [k \in {StepResultKey[Names[i - 1]]} |-> "in"]}

AgentStepOptions(i) ==
    {[name |-> Names[i], prompt |-> "persona", inputs |-> inp, max_attempts |-> NoneVal] :
        inp \in AgentInputChoices(i)}

RECURSIVE AgentPlansFrom(_, _)
AgentPlansFrom(i, n) ==
    IF i > n THEN {<<>>}
    ELSE {<<s>> \o rest : s \in AgentStepOptions(i), rest \in AgentPlansFrom(i + 1, n)}

AgentPlans == UNION {AgentPlansFrom(1, n) : n \in 1..MaxAgentSteps}

\* what the step's agent does with the context: it returns a result, or raises
AgentRunResults == {"ok", ""}

\* what the backend answers the recovery prompt with
AdvisorReasons == {"bad input", "missing file"}

AdvisorResponses(steps) ==
    {[kind |-> "text", agent_name |-> NoneVal, reason |-> NoneVal],
     [kind |-> "partial", agent_name |-> NoneVal, reason |-> NoneVal]}
    \cup {[kind |-> "decision", agent_name |-> n, reason |-> r] :
             n \in {steps[i].name : i \in DOMAIN steps} \cup {"ghost"},
             r \in AdvisorReasons}

InitAgent ==
    /\ raw0 = <<>>
    /\ raw = <<>>
    /\ planStatus = "new"
    /\ states = EmptyDict
    /\ recompiled = EmptyDict
    /\ global_inputs = EmptyDict
    /\ server_prompts \in {{"persona"}, {}}
    /\ ui = TRUE
    /\ context = [plan |-> "plan.yaml"]
    /\ tracker = <<>>
    /\ status = "Pending"
    /\ pc = "new"
    /\ runner_calls = 0
    /\ attempts = 0
    /\ max_attempts \in 1..MaxAttempts
    /\ current_state_name = NoneVal
    /\ calls = 0
    /\ ret = NoReturn
    /\ NoWorker
    /\ agents \in AgentPlans
    /\ current_step_index = 0
    /\ action = NoneVal
    /\ recovery_step = NoDecision
    /\ recovery = EmptyDict
    /\ advisor_requests = 0
    /\ via = "start"
    /\ snapshot = EmptyDict
    /\ decisions = EmptyDict
    /\ exec_context = EmptyDict

\* ManagerAgent.run, lines 149-163, and the head of run_tasks: the personas
\* of the plan are validated against the server
AgentRun ==
    /\ pc = "new"
    /\ agents # <<>>
    /\ IF \A i \in DOMAIN agents : agents[i].prompt \in server_prompts
       THEN pc' = "step"
       ELSE pc' = "raised"
    /\ context' = set_managed(context)
    /\ UNCHANGED <<planVars, envVars, parseVars, workerVars, tracker, status, runner_calls, attempts,
                   max_attempts, smVars, agentVars, histVars>>

\* run_tasks, lines 311-316, at the exit of the loop
exit_status(idx, steps) == IF idx = Len(steps) THEN "Succeeded" ELSE "Failed"

\* run_tasks, lines 206-262: one step is executed, recorded and judged
ExecuteStep ==
    /\ pc = "step"
    /\ calls < MaxCalls
    /\ current_step_index < Len(agents)
    /\ LET step == agents[current_step_index + 1]
           ctx1 == set_max_attempts(step_update_context(context, step), step)
       IN /\ calls' = calls + 1
          /\ runner_calls' = runner_calls + 1
          /\ \/ \* agent.run raises: run_step stores the error and re-raises
                /\ context' = Put(ctx1, "error_message", "boom")
                /\ status' = "Failed"
                /\ pc' = "raised"
                /\ via' = "runner_raised"
                /\ UNCHANGED <<tracker, attempts, current_step_index>>
             \/ \* agent.run returns
                \E r \in AgentRunResults :
                  LET ctx2 == Put(ctx1, "result", r)
                      result == get(ctx2, "result")
                      error == get(ctx2, "error_message")
                  IN /\ tracker' = Append(tracker,
                                     [agent |-> step.name, result |-> result,
                                      error |-> error, attempts |-> attempts])
                     /\ IF Truthy(result) /\ ~Truthy(error)
                        THEN /\ current_step_index' = current_step_index + 1
                             /\ context' = Context_reset(ctx2)
                             /\ via' = "advanced"
                             /\ IF current_step_index + 1 < Len(agents)
                                THEN pc' = "step" /\ UNCHANGED status
                                ELSE /\ pc' = "returned"
                                     /\ status' = exit_status(current_step_index + 1, agents)
                             /\ UNCHANGED attempts
                        ELSE IF reached_max_attempts(attempts, max_attempts)
                        THEN /\ pc' = "returned"
                             /\ status' = exit_status(current_step_index, agents)
                             /\ context' = ctx2
                             /\ via' = "exhausted"
                             /\ UNCHANGED <<attempts, current_step_index>>
                        ELSE /\ attempts' = attempts + 1
                             /\ pc' = "ask"
                             /\ context' = ctx2
                             /\ UNCHANGED <<status, current_step_index, via>>
    /\ UNCHANGED <<planVars, envVars, parseVars, workerVars, max_attempts, current_state_name, ret,
                   agents, action, recovery_step, recovery, advisor_requests, histVars>>

\* an automatic recovery that asks the advisor whatever step failed
failed_first_step_ignored(idx) == FALSE

\* run_tasks, line 288: the step that failed is the first one
failed_first_step(idx) == idx = 0

\* run_tasks, lines 264-290: the user chooses what to do about the failure
AskUser ==
    /\ pc = "ask"
    /\ LET step == agents[current_step_index + 1]
           error == get(context, "error_message")
       IN \E a \in {"retry", "assist", "auto", "quit"} :
            /\ action' = a
            /\ IF a = "quit"
               THEN /\ pc' = "returned"
                    /\ status' = exit_status(current_step_index, agents)
                    /\ via' = "quit"
                    /\ UNCHANGED context
               ELSE IF a = "retry"
               THEN /\ context' = manager_reset_context(context, agents, step.name)
                    /\ pc' = "step"
                    /\ via' = "retry"
                    /\ UNCHANGED status
               ELSE IF a = "assist"
               THEN /\ context' = manager_reset_context(
                                      Put(context, "error_message", advice(error, "hint")),
                                      agents, step.name)
                    /\ pc' = "step"
                    /\ via' = "assist"
                    /\ UNCHANGED status
               ELSE IF failed_first_step(current_step_index)
               THEN /\ context' = manager_reset_context(context, agents, NoneVal)
                    /\ pc' = "step"
                    /\ via' = "hard_reset"
                    /\ UNCHANGED status
               ELSE /\ pc' = "advise"
                    /\ UNCHANGED <<context, status, via>>
    /\ UNCHANGED <<planVars, envVars, parseVars, workerVars, tracker, runner_calls, attempts, max_attempts, smVars,
                   agents, current_step_index, recovery_step, recovery, advisor_requests,
                   histVars>>

\* get_recovery_step and run_tasks, lines 293-309: the advisor is consulted
\* and the run is rewound to the step it names
Advise ==
    /\ pc = "advise"
    /\ LET failed == agents[current_step_index + 1].name
       IN \E resp \in AdvisorResponses(agents) :
          /\ advisor_requests' = 1
          /\ IF (resp.kind # "decision"
                 \/ resp.agent_name \notin {agents[i].name : i \in DOMAIN agents})
            THEN \* json.loads or the validation raises; run() reports the failure
                 /\ status' = "Failed"
                 /\ pc' = "raised"
                 /\ via' = "unresolved"
                 /\ UNCHANGED <<context, current_step_index, recovery_step, recovery,
                                decisions>>
            ELSE LET index == found_index(agents, resp.agent_name)
                     next_step == [agent_name |-> resp.agent_name, reason |-> resp.reason,
                                   index |-> index]
                 IN /\ recovery_step' = next_step
                    /\ recovery' = IF failed \notin DOMAIN recovery
                                   THEN Put(recovery, failed, <<next_step>>)
                                   ELSE recovery
                    /\ decisions' = Put(decisions, failed,
                                        Append(IF failed \in DOMAIN decisions
                                               THEN decisions[failed] ELSE <<>>,
                                               next_step))
                    /\ current_step_index' = index
                    /\ context' = rewind_context(context, agents, agents[index + 1].name,
                                                 resp.reason)
                    /\ pc' = "step"
                    /\ via' = "rewind"
                    /\ UNCHANGED status
    /\ UNCHANGED <<planVars, envVars, parseVars, workerVars, tracker, runner_calls, attempts, max_attempts, smVars,
                   agents, action, snapshot, exec_context>>

\* ManagerAgent.run, lines 167-174: run_tasks has returned
RunReturn ==
    /\ pc = "returned"
    /\ status' = "Succeeded"
    /\ pc' = "done"
    /\ UNCHANGED <<planVars, envVars, parseVars, workerVars, context, tracker, runner_calls, attempts, max_attempts,
                   smVars, agentVars, histVars>>

NextAgent == AgentRun \/ ExecuteStep \/ AskUser \/ Advise \/ RunReturn

SpecAgent == InitAgent /\ [][NextAgent]_vars

----------------------------------------------------------------------------
(* Claims about the ManagerAgent. *)

StepSucceeded(rec) == rec.result \notin {NoneVal, ""} /\ rec.error \in {NoneVal, ""}

\* C1: when every execution fails and the user never quits, run_tasks
\* returns with exactly max_attempts recorded attempts and status "Failed",
\* and at no time holds more than max_attempts records.
C1_ExactlyMaxAttemptsRecorded ==
    (/\ tracker # <<>>
     /\ \A i \in DOMAIN tracker : ~StepSucceeded(tracker[i])
     /\ action # "quit")
    => /\ Len(tracker) <= max_attempts
       /\ pc = "returned" => (Len(tracker) = max_attempts /\ status = "Failed")

\* C3: when the loop resumes after an advisor-driven rewind, the current
\* step is the advisor's target and the context holds no <s>_result key of
\* any step s declared after the target.
C3_RewindErasesLaterResults ==
    (pc = "step" /\ via = "rewind") =>
        /\ current_step_index = recovery_step.index
        /\ agents[current_step_index + 1].name = recovery_step.agent_name
        /\ \A j \in DOMAIN agents :
               j > current_step_index + 1 => StepResultKey[agents[j].name] \notin DOMAIN context

\* C14: when the run was aborted because the attempt budget was exhausted
\* or the advisor's answer could not be resolved to a declared step, the
\* status run() ends with is "Failed" and the last record of the trace is
\* the failed step's.
C14_AbortedRunReportsFailed ==
    (pc \in {"done", "raised"} /\ via \in {"exhausted", "unresolved"}) =>
        /\ status = "Failed"
        /\ tracker # <<>>
        /\ ~StepSucceeded(tracker[Len(tracker)])

\* C15: once the operator has answered quit to the failure prompt the loop
\* is left at once, no further step is executed, and the status run() ends
\* with is "Failed".
C15_QuitAbortsWithFailed ==
    action = "quit" =>
        /\ pc \in {"returned", "done"}
        /\ via = "quit"
        /\ ~StepSucceeded(tracker[Len(tracker)])
        /\ pc = "done" => status = "Failed"

\* C16: when the step's runner raises, the error is captured in the
\* record of the step, the cycle counts as a failure handled by the
\* recovery policy, and no exception leaves run().
C16_RunnerFailureIsCaptured ==
    via = "runner_raised" =>
        /\ pc # "raised"
        /\ tracker # <<>>
        /\ tracker[Len(tracker)].error = "boom"

\* C18: the decision procedure gives up on an advisor whose answers do
\* not decode or validate only after it has re-issued the request at
\* least once.
C18_AdvisorRequestIsReissued ==
    via = "unresolved" => advisor_requests > 1

\* C25: when the loop resumes after an advisor-driven rewind, error_message
\* holds the retry message that embeds the advisor's reason, in the context
\* the manager holds and in the context handed to the re-executed step.
C25_SeedSurvivesRewind ==
    (pc = "step" /\ via = "rewind") =>
        LET step == agents[current_step_index + 1]
            handed == set_max_attempts(step_update_context(context, step), step)
        IN /\ get(context, "error_message") = get_retry_prompt(recovery_step.reason)
           /\ get(handed, "error_message") = get_retry_prompt(recovery_step.reason)
           /\ get_retry_prompt(recovery_step.reason) # "retry"

\* the rewind's reset has acted (the failed result is gone) and the seed is
\* in place
C25_Witness ==
    /\ pc = "step" /\ via = "rewind"
    /\ tracker # <<>> /\ ~StepSucceeded(tracker[Len(tracker)])
    /\ "result" \notin DOMAIN context
    /\ recovery_step.reason = "missing file"
    /\ get(context, "error_message") = "retry: missing file"

\* C28: when the first step has failed and the recovery is automatic, the
\* context is reset (the state variables go, every other key stays), the
\* manager stays on the first step and goes on to run it, and no request is
\* sent to the advisor: no decision is made or recorded.
C28_FirstStepAutoIsHardReset ==
    [][(pc = "ask" /\ current_step_index = 0 /\ action' = "auto") =>
           /\ pc' = "step"
           /\ current_step_index' = 0
           /\ DOMAIN context' = DOMAIN context \ state_variables
           /\ \A k \in DOMAIN context' : context'[k] = context[k]
           /\ advisor_requests' = advisor_requests
           /\ recovery_step' = recovery_step
           /\ recovery' = recovery]_vars

\* the first step failed, the recovery was automatic and the loop is about
\* to run the first step again on a context without the failed result
C28_Witness ==
    /\ pc = "step" /\ via = "hard_reset" /\ action = "auto"
    /\ current_step_index = 0
    /\ tracker # <<>> /\ tracker[Len(tracker)].agent = agents[1].name
    /\ ~StepSucceeded(tracker[Len(tracker)])
    /\ "result" \notin DOMAIN context
    /\ "plan" \in DOMAIN context

\* C29: for every step that failed, the recovery history of that step holds
\* every advisor decision made for its failures, in the order they were made.
C29_HistoryHoldsEveryDecision ==
    \A s \in DOMAIN decisions :
        s \in DOMAIN recovery /\ recovery[s] = decisions[s]

\* C30: after a recovery the current step is the step that failed or a
\* step declared before it: the run never moves forward past a step that
\* has not succeeded.
C30_RecoveryNeverJumpsForward ==
    (pc = "step" /\ via = "rewind") =>
        current_step_index <= found_index(agents, tracker[Len(tracker)].agent)

\* no retry, assist, hard reset or rewind has taken place in the run
NothingRewound == advisor_requests = 0 /\ action \in {NoneVal, "quit"}

\* C37: as long as nothing has been rewound, the output of every step that
\* has succeeded is in the context under <s>_result: the advance to the
\* next step does not remove it.
C37_StepOutputStaysAvailable ==
    NothingRewound =>
        \A i \in DOMAIN tracker :
            StepSucceeded(tracker[i]) =>
                /\ StepResultKey[tracker[i].agent] \in DOMAIN context
                /\ context[StepResultKey[tracker[i].agent]] = tracker[i].result

\* the step that runs next is a re-execution ordered by a recovery
ReExecution == pc = "step" /\ via \in {"rewind", "assist"}

\* C38: a step re-executed after a recovery rewind or an operator assist
\* whose agent returns a non-empty result is recorded as a success and the
\* run advances to the next step; the error_message seeded for the retry
\* does not make the execution count as a failure.
C38_ReExecutionWithResultAdvances ==
    [][(/\ ReExecution
        /\ Len(tracker') = Len(tracker) + 1
        /\ Truthy(tracker'[Len(tracker')].result))
       => /\ StepSucceeded(tracker'[Len(tracker')])
          /\ current_step_index' = current_step_index + 1]_vars


\* the cycle just taken appended a record to the tracker
CycleRecorded == Len(tracker') = Len(tracker) + 1

\* C39: the run-wide attempt counter stays within 0..max_attempts; it grows
\* by exactly one on a failed cycle that is allowed to recover, is unchanged
\* by a successful cycle and by every other step, and never decreases.
C39_AttemptsBoundedAndMonotone ==
    /\ [](0 <= attempts /\ attempts <= max_attempts)
    /\ [][/\ attempts' \in {attempts, attempts + 1}
          /\ (attempts' = attempts + 1) <=>
                 (/\ CycleRecorded
                  /\ ~StepSucceeded(tracker'[Len(tracker')])
                  /\ attempts < max_attempts)
          /\ (CycleRecorded /\ StepSucceeded(tracker'[Len(tracker')]))
                 => attempts' = attempts]_vars

C39_Witness ==
    /\ attempts = max_attempts
    /\ via = "exhausted"
    /\ \E i \in DOMAIN tracker : StepSucceeded(tracker[i])
    /\ \E i \in DOMAIN tracker : ~StepSucceeded(tracker[i]) /\ tracker[i].attempts = attempts

\* the messages that carry the user's hint
HintMessages == {advice(e, "hint") : e \in {NoneVal, "boom"}}

\* C26: when the user chose assist, the hint merged into error_message is
\* still in the context's error_message when the failed step is re-executed.
C26_AssistHintReachesStep ==
    (pc = "step" /\ via = "assist") =>
        LET step == agents[current_step_index + 1]
            handed == set_max_attempts(step_update_context(context, step), step)
        IN get(handed, "error_message") \in HintMessages

C3_Witness ==
    /\ pc = "step" /\ via = "rewind"
    /\ Len(agents) = 3
    /\ "B_result" \in DOMAIN agents[3].inputs
    /\ Len(tracker) = 3
    /\ StepSucceeded(tracker[1]) /\ StepSucceeded(tracker[2])
    /\ tracker[3].agent = "C" /\ ~StepSucceeded(tracker[3])
    /\ recovery_step.agent_name = "A"
    /\ current_step_index = 0
    /\ "B_result" \notin DOMAIN context /\ "C_result" \notin DOMAIN context

----------------------------------------------------------------------------
(* The context under the operations the managers apply to it. *)

CtxGlobalChoices ==
    GlobalInputChoices \cup {[data |-> "g"], [plan |-> "p", A_result |-> "g1"]}

CtxStepNames == {Names[i] : i \in 1..MaxRunSteps}

InitCtx ==
    /\ raw0 = <<>>
    /\ raw = <<>>
    /\ planStatus = "new"
    /\ states = EmptyDict
    /\ recompiled = EmptyDict
    /\ global_inputs \in CtxGlobalChoices
    /\ server_prompts = {}
    /\ ui = FALSE
    /\ context \in CallerContexts
    /\ tracker = <<>>
    /\ status = "Pending"
    /\ pc = "ctx"
    /\ runner_calls = 0
    /\ attempts = 0
    /\ max_attempts = 10
    /\ current_state_name = NoneVal
    /\ calls = 0
    /\ ret = NoReturn
    /\ NoWorker
    /\ NoAgentManager
    /\ via = "start"

\* Manager.run, lines 55-57: the plan's global inputs are merged where absent
CtxMerge ==
    /\ pc = "ctx"
    /\ snapshot' = context
    /\ context' = merge_global_inputs(context, global_inputs)
    /\ via' = "merge"
    /\ UNCHANGED <<decisions, exec_context, planVars, envVars, parseVars, workerVars, tracker, status, pc, runner_calls, attempts,
                   max_attempts, smVars, agents, current_step_index, action,
                   recovery_step, recovery, advisor_requests>>

\* WorkflowStateMachine.update_context: a step's outcome is written back
CtxUpdate ==
    /\ pc = "ctx"
    /\ calls < MaxCalls
    /\ \E n \in CtxStepNames, r \in Results, e \in Errors :
           context' = update_context(context, n, r, e)
    /\ snapshot' = context
    /\ calls' = calls + 1
    /\ via' = "update"
    /\ UNCHANGED <<decisions, exec_context, planVars, envVars, parseVars, workerVars, tracker, status, pc, runner_calls, attempts,
                   max_attempts, current_state_name, ret, agents, current_step_index,
                   action, recovery_step, recovery, advisor_requests>>

\* MCPAgent.run_step, line 303: a failing step stores its error
CtxSetError ==
    /\ pc = "ctx"
    /\ calls < MaxCalls
    /\ snapshot' = context
    /\ context' = Put(context, "error_message", "boom")
    /\ calls' = calls + 1
    /\ via' = "error"
    /\ UNCHANGED <<decisions, exec_context, planVars, envVars, parseVars, workerVars, tracker, status, pc, runner_calls, attempts,
                   max_attempts, current_state_name, ret, agents, current_step_index,
                   action, recovery_step, recovery, advisor_requests>>

\* context.reset() (run_tasks, line 255) or step.reset_context(context)
\* (ManagerAgent.reset_context, line 346)
CtxReset ==
    /\ pc = "ctx"
    /\ snapshot' = context
    /\ \/ context' = Context_reset(context)
       \/ context' = reset_context(context)
    /\ via' = "reset"
    /\ UNCHANGED <<decisions, exec_context, planVars, envVars, parseVars, workerVars, tracker, status, pc, runner_calls, attempts,
                   max_attempts, smVars, agents, current_step_index, action,
                   recovery_step, recovery, advisor_requests>>

NextCtx == CtxMerge \/ CtxUpdate \/ CtxSetError \/ CtxReset

SpecCtx == InitCtx /\ [][NextCtx]_vars

----------------------------------------------------------------------------
(* Step.update_context applied to a context. *)

\* every dict over a subset of the keys K with values in V
DictsOver(K, V) == UNION {[S -> V] : S \in SUBSET K}

MergeContexts == DictsOver({"data", "plan", "max_attempts", "llm_model"}, {"c", "d"})

MergeInputs == DictsOver({"data", "extra", "max_attempts", "llm_model"}, {"in"})

InitMerge ==
    /\ raw0 = <<>>
    /\ raw = <<>>
    /\ planStatus = "new"
    /\ states = EmptyDict
    /\ recompiled = EmptyDict
    /\ global_inputs = EmptyDict
    /\ server_prompts = {}
    /\ ui = FALSE
    /\ context \in MergeContexts
    /\ tracker = <<>>
    /\ status = "Pending"
    /\ pc = "merge"
    /\ runner_calls = 0
    /\ attempts = 0
    /\ max_attempts = 10
    /\ current_state_name = NoneVal
    /\ calls = 0
    /\ ret = NoReturn
    /\ NoWorker
    /\ agents \in {<<[name |-> Names[1], prompt |-> "persona", inputs |-> inp,
                       max_attempts |-> NoneVal]>> : inp \in MergeInputs}
    /\ current_step_index = 0
    /\ action = NoneVal
    /\ recovery_step = NoDecision
    /\ recovery = EmptyDict
    /\ advisor_requests = 0
    /\ via = "start"
    /\ snapshot = EmptyDict
    /\ decisions = EmptyDict
    /\ exec_context = EmptyDict

\* run_tasks, line 222: context = step.update_context(context)
StepMerge ==
    /\ pc = "merge"
    /\ snapshot' = context
    /\ context' = step_update_context(context, agents[current_step_index + 1])
    /\ pc' = "merged"
    /\ via' = "merge"
    /\ UNCHANGED <<decisions, exec_context, planVars, envVars, parseVars, workerVars, tracker, status, runner_calls, attempts,
                   max_attempts, smVars, agents, current_step_index, action,
                   recovery_step, recovery, advisor_requests>>

NextMerge == StepMerge

SpecMerge == InitMerge /\ [][NextMerge]_vars

\* the context is the context before the merge with the step's values at the keys K
MergedAt(K) ==
    LET inp == agents[current_step_index + 1].inputs
    IN /\ DOMAIN context = DOMAIN snapshot \cup K
       /\ \A k \in K : context[k] = inp[k]
       /\ \A k \in DOMAIN snapshot \ K : context[k] = snapshot[k]

----------------------------------------------------------------------------
(* Claims about the context. *)

\* the keys of the form <name>_result, name a step name
IsStepResultKey(k) == k \in {"A_result", "B_result", "C_result", "D_result"}

Cleared(k) == k \in {"result", "error_message"} \/ IsStepResultKey(k)

\* C9: a reset removes the keys result, error_message and <name>_result and
\* no other key; every other key of the context before the reset is still
\* present afterwards with the value it had.
C9_ResetRemovesOnlyStateKeys ==
    via = "reset" =>
        /\ DOMAIN context = {k \in DOMAIN snapshot : ~Cleared(k)}
        /\ \A k \in DOMAIN context : context[k] = snapshot[k]

C9_Witness ==
    /\ via = "reset"
    /\ {"result", "error_message", "A_result", "_previous_result", "data"}
           \subseteq DOMAIN snapshot
    /\ "data" \in DOMAIN global_inputs /\ snapshot["data"] = global_inputs["data"]
    /\ DOMAIN context \cap {"result", "error_message", "A_result"} = {}
    /\ {"_previous_result", "data"} \subseteq DOMAIN context
    /\ context["data"] = global_inputs["data"]

\* C10: resetting a reachable context and merging the plan's global inputs
\* again yields a context that holds every global-input key: the set of
\* global-input keys present is the one the first merge produced.
C10_ResetThenMergeKeepsGlobalKeys ==
    LET remerged == merge_global_inputs(Context_reset(context), global_inputs)
    IN /\ {k \in DOMAIN remerged : k \in DOMAIN global_inputs} = DOMAIN global_inputs
       /\ (via = "merge" =>
              {k \in DOMAIN context : k \in DOMAIN global_inputs} = DOMAIN global_inputs)

C10_Witness ==
    /\ via = "merge"
    /\ "result" \in DOMAIN global_inputs
    /\ "_previous_result" \in DOMAIN snapshot
    /\ "result" \notin DOMAIN snapshot
    /\ "result" \in DOMAIN context /\ context["result"] = global_inputs["result"]

----------------------------------------------------------------------------
(* WorkerAgent: fractale/engines/native/agent.py, run by Manager.run_agent   *)
(* for the agent step at which the state machine stands.                     *)

MaxLoops == 3

\* a text that holds a fenced code block
CodeBlock == "fenced: {}"

\* generate_response: the text of the provider's answer
ProviderTexts == {"", "thought", CodeBlock}

\* extract_code_block: whether the text holds a fenced block
extract_code_block(text) == text = CodeBlock

\* the content recorded for a tool call: its output, or the error text
ToolContents == {"out", "Error: x"}

\* run_loop, lines 227-234
has_global_error(content) == content = "Error: x"

\* the answer to the check_finished prompt, lines 246-274
Decisions == {"success", "continue", "undecodable"}

WorkerStep == [name |-> Names[1], type |-> "agent", prompt |-> "persona"]

InitWorker ==
    /\ raw0 = <<WorkerStep>>
    /\ raw = compiled_raw(raw0)
    /\ planStatus = "compiled"
    /\ states = do_compile(raw0)
    /\ recompiled = EmptyDict
    /\ global_inputs = EmptyDict
    /\ server_prompts = {"persona"}
    /\ ui \in BOOLEAN
    /\ context = [managed |-> "True"]
    /\ tracker = <<>>
    /\ status = "running"
    /\ pc = "worker"
    /\ runner_calls = 0
    /\ attempts = 0
    /\ max_attempts = 10
    /\ current_state_name = initial_state_name(states)
    /\ calls = 0
    /\ ret = NoReturn
    /\ NoAgentManager
    /\ loops = 0
    /\ max_loops \in 1..MaxLoops
    /\ response = NoneVal
    /\ chosen_tool \in BOOLEAN
    /\ returned_by = NoneVal
    /\ raw_response = NoneVal
    /\ tool_result = NoneVal

\* WorkerAgent.run, lines 54-68, and Manager.run_agent, lines 144-156: what
\* the Runner returns when run_loop returned value, or raised
run_agent_returns(ctx, value, raised) ==
    IF raised THEN <<NoneVal, "boom">>
    ELSE <<value, get(Put(ctx, "result", value), "error_message")>>

\* the run_cycle call in which run_loop came back: the cycle is recorded
\* and the machine moves on
WorkerReturn(value, raised, by) ==
    LET out == run_agent_returns(context, value, raised)
        r == run_cycle(states, current_state_name, context, out[1], out[2])
    IN /\ returned_by' = by
       /\ context' = r.context
       /\ current_state_name' = r.current_state_name
       /\ tracker' = Append(tracker, r.meta)
       /\ ret' = [step_meta |-> r.step_meta, finished |-> r.finished]
       /\ runner_calls' = runner_calls + r.invoked
       /\ calls' = calls + 1
       /\ pc' = "worker_done"

WorkerContinue ==
    /\ pc' = "worker"
    /\ UNCHANGED <<context, current_state_name, tracker, ret, runner_calls, calls, returned_by>>

\* run_loop, lines 178-274: one iteration of the loop
WorkerIterate ==
    /\ pc = "worker"
    /\ loops < max_loops
    /\ loops' = loops + 1
    /\ \E text \in ProviderTexts, calls_requested \in BOOLEAN,
          content \in ToolContents, decision \in Decisions :
         /\ response' = text
         /\ IF ~calls_requested /\ ~chosen_tool
            THEN \* line 208: no tools called, the agent is finished
                 WorkerReturn(text, FALSE, "no_calls")
            ELSE IF ~calls_requested /\ ~extract_code_block(text)
            THEN \* lines 193-197, 242-243: no call, none extracted, and the
                 \* last of no tool outputs is asked for
                 WorkerReturn(NoneVal, TRUE, "raised")
            ELSE IF chosen_tool /\ ~has_global_error(content)
            THEN WorkerReturn(content, FALSE, "tool")
            ELSE IF decision = "success"
            THEN WorkerReturn(content, FALSE, "check")
            ELSE WorkerContinue
    /\ UNCHANGED <<planVars, envVars, parseVars, status, attempts, max_attempts, agentVars, histVars,
                   max_loops, chosen_tool>>

\* run_loop, lines 178 and 276: the cap is reached, the last response is returned
WorkerCapReached ==
    /\ pc = "worker"
    /\ loops >= max_loops
    /\ WorkerReturn(response, FALSE, "cap")
    /\ UNCHANGED <<planVars, envVars, parseVars, status, attempts, max_attempts, agentVars, histVars,
                   loops, max_loops, response, chosen_tool>>

NextWorker == WorkerIterate \/ WorkerCapReached

SpecWorker == InitWorker /\ [][NextWorker]_vars

----------------------------------------------------------------------------
(* Claims about the WorkerAgent. *)

\* C17: when the tool-calling loop of an agent step ends because it reached
\* its iteration cap, the step is recorded with a non-empty error and the
\* outcome failure, and the run goes on to the step's failure target.
C17_IterationCapIsStepError ==
    returned_by = "cap" =>
        /\ tracker # <<>>
        /\ Truthy(tracker[Len(tracker)].error)
        /\ tracker[Len(tracker)].outcome = "failure"
        /\ current_state_name = "failed"

----------------------------------------------------------------------------
(* MCPAgent.run_llm_loop: fractale/agent/agent.py, run for the step at which  *)
(* the ManagerAgent stands.                                                   *)

\* get_code_block: err is set when the response holds no decodable block
get_code_block_err(text) == text # CodeBlock

\* the step of the plan, with or without a validation tool
LLMSteps ==
    {[name |-> Names[1], prompt |-> "persona", inputs |-> EmptyDict,
      max_attempts |-> NoneVal, validate |-> v] : v \in {NoneVal, "validator"}}

InitLLM ==
    /\ raw0 = <<>>
    /\ raw = <<>>
    /\ planStatus = "new"
    /\ states = EmptyDict
    /\ recompiled = EmptyDict
    /\ global_inputs = EmptyDict
    /\ server_prompts = {"persona"}
    /\ ui = TRUE
    /\ context = [managed |-> "True"]
    /\ tracker = <<>>
    /\ status = "Pending"
    /\ pc = "llm"
    /\ runner_calls = 0
    /\ attempts = 0
    /\ max_attempts = 10
    /\ current_state_name = NoneVal
    /\ calls = 0
    /\ ret = NoReturn
    /\ agents \in {<<st>> : st \in LLMSteps}
    /\ current_step_index = 0
    /\ action = NoneVal
    /\ recovery_step = NoDecision
    /\ recovery = EmptyDict
    /\ advisor_requests = 0
    /\ via = "start"
    /\ snapshot = EmptyDict
    /\ decisions = EmptyDict
    /\ exec_context = EmptyDict
    /\ loops = 0
    /\ max_loops \in 1..MaxLoops
    /\ response = NoneVal
    /\ chosen_tool = FALSE
    /\ returned_by = NoneVal
    /\ raw_response = NoneVal
    /\ tool_result = NoneVal

\* run_llm_loop, lines 152-207: one iteration of the loop.  via names the
\* branch the iteration took.
LLMIterate ==
    /\ pc = "llm"
    /\ loops < max_loops
    /\ loops' = loops + 1
    /\ LET step == agents[current_step_index + 1]
       IN \E text \in ProviderTexts, calls_requested \in BOOLEAN, err \in BOOLEAN,
             summary \in ProviderTexts :
            IF Truthy(step.validate)
            THEN IF get_code_block_err(text)
                 THEN \* lines 181-185: continue with the format error prompt
                      /\ response' = text
                      /\ via' = "format_error"
                      /\ UNCHANGED <<pc, returned_by>>
                 ELSE IF err
                 THEN \* lines 187-190: the validation tool reports an error
                      /\ response' = "Error: x"
                      /\ via' = "validation_error"
                      /\ UNCHANGED <<pc, returned_by>>
                 ELSE \* lines 203-207: the validation tool reports success;
                      \* the provider is asked again and the loop goes on
                      /\ response' = summary
                      /\ via' = "validated"
                      /\ UNCHANGED <<pc, returned_by>>
            ELSE IF ~calls_requested
            THEN \* lines 193-195: no tools called, break
                 /\ response' = text
                 /\ via' = "no_calls"
                 /\ returned_by' = "no_calls"
                 /\ pc' = "llm_done"
            ELSE IF err
            THEN \* lines 198-201: a tool call failed
                 /\ response' = "Error: x"
                 /\ via' = "tools_error"
                 /\ UNCHANGED <<pc, returned_by>>
            ELSE \* lines 203-207: the provider is asked to summarise
                 /\ response' = summary
                 /\ via' = "tools_ok"
                 /\ UNCHANGED <<pc, returned_by>>
    /\ UNCHANGED <<planVars, envVars, parseVars, context, tracker, status, runner_calls, attempts,
                   max_attempts, smVars, agents, current_step_index, action,
                   recovery_step, recovery, advisor_requests, histVars,
                   max_loops, chosen_tool>>

\* run_llm_loop, lines 152 and 209: the loop condition fails, response is returned
LLMCapReached ==
    /\ pc = "llm"
    /\ loops >= max_loops
    /\ returned_by' = "cap"
    /\ pc' = "llm_done"
    /\ UNCHANGED <<planVars, envVars, parseVars, context, tracker, status, runner_calls, attempts,
                   max_attempts, smVars, agentVars, histVars,
                   loops, max_loops, response, chosen_tool>>

NextLLM == LLMIterate \/ LLMCapReached

SpecLLM == InitLLM /\ [][NextLLM]_vars

\* C36: the loop of an agent step never runs more iterations than its cap
\* and returns when the cap is reached; below the cap it has returned as
\* soon as the provider asked for no tool call, and as soon as the
\* validation tool reported success.
C36_LoopBoundedAndStopsEarly ==
    /\ loops <= max_loops
    /\ returned_by = "cap" => loops = max_loops
    /\ via = "no_calls" => pc = "llm_done"
    /\ (via = "validated" /\ loops < max_loops) => pc = "llm_done"

----------------------------------------------------------------------------
(* parse_tool_response: fractale/engines/native/result.py                   *)
(* A raw response is described by what the parser looks at: whether its      *)
(* text decodes to a JSON object, the fields of that object ("absent" for a  *)
(* missing key), and whether the text holds a failure marker.                *)

Absent == "absent"

RawResponses ==
    {[kind |-> "dict", returncode |-> rc, exit_code |-> ec, status |-> st,
      is_error |-> ie, marker |-> m] :
        rc \in {Absent, "0", "1"}, ec \in {Absent, "0", "1"},
        st \in {Absent, "ok", "error", "FAILED"}, ie \in {Absent, "false", "true"},
        m \in BOOLEAN}
    \cup {[kind |-> "text", returncode |-> Absent, exit_code |-> Absent, status |-> Absent,
           is_error |-> Absent, marker |-> m] : m \in BOOLEAN}

\* data.get(key, default)
data_get(data, key, default) == IF data[key] = Absent THEN default ELSE data[key]

\* str.lower
lower(text) == IF text = "FAILED" THEN "failed" ELSE text

\* lines 50-59: the structured checks
structured_error(data) ==
    /\ data.kind = "dict"
    /\ \/ data_get(data, "returncode", "0") # "0"
       \/ data_get(data, "exit_code", "0") # "0"
       \/ lower(data_get(data, "status", "")) \in {"error", "failure", "failed"}
       \/ data_get(data, "is_error", "false") = "true"

\* line 65: a failure glyph or substring in the text
text_error(rr) == rr.marker

\* parse_tool_response
parse_tool_response(rr) ==
    LET is_error == structured_error(rr) \/ (~structured_error(rr) /\ text_error(rr))
    IN [has_data |-> rr.kind = "dict",
        is_error |-> is_error,
        error_message |-> IF is_error THEN "content" ELSE NoneVal]

InitParse ==
    /\ raw0 = <<>>
    /\ raw = <<>>
    /\ planStatus = "new"
    /\ states = EmptyDict
    /\ recompiled = EmptyDict
    /\ global_inputs = EmptyDict
    /\ server_prompts = {}
    /\ ui = FALSE
    /\ context = EmptyDict
    /\ tracker = <<>>
    /\ status = "Pending"
    /\ pc = "parse"
    /\ runner_calls = 0
    /\ attempts = 0
    /\ max_attempts = 10
    /\ current_state_name = NoneVal
    /\ calls = 0
    /\ ret = NoReturn
    /\ NoAgentManager
    /\ loops = 0
    /\ max_loops = 5
    /\ response = NoneVal
    /\ chosen_tool = FALSE
    /\ returned_by = NoneVal
    /\ raw_response \in RawResponses
    /\ tool_result = NoneVal

\* WorkerAgent.run_loop, line 224: a tool's raw response is parsed
ParseToolResponse ==
    /\ pc = "parse"
    /\ tool_result' = parse_tool_response(raw_response)
    /\ pc' = "parsed"
    /\ UNCHANGED <<planVars, envVars, context, tracker, status, runner_calls, attempts,
                   max_attempts, smVars, agentVars, histVars, workerVars, raw_response>>

NextParse == ParseToolResponse

SpecParse == InitParse /\ [][NextParse]_vars

----------------------------------------------------------------------------
(* Claims about parse_tool_response. *)

\* the parsed content carries a structured signal
HasStructuredSignal(rr) ==
    /\ rr.kind = "dict"
    /\ \E key \in {"returncode", "exit_code", "status", "is_error"} : rr[key] # Absent

\* C19: when the parsed content carries a structured signal, the
\* classification is the signal's (so fields that signal success give "not
\* an error" whatever the text holds); the text markers decide only when
\* there is no structured signal.
C19_StructuredSignalDecides ==
    pc = "parsed" =>
        IF HasStructuredSignal(raw_response)
        THEN tool_result.is_error = structured_error(raw_response)
        ELSE tool_result.is_error = text_error(raw_response)

====
